---- MODULE Spec2Model ----
(***************************************************************************)
(* Model of token/cli/src/config.rs: the per-invocation Config of the      *)
(* token CLI, its address and signer resolvers, the mint-info and          *)
(* token-account validators and the associated-token-address entry points. *)
(*                                                                         *)
(* One invocation is a process that owns an immutable Config and calls the *)
(* methods of Config one after the other.  A method either returns to its  *)
(* caller, terminates the process with exit(1), or panics (an unwrap() of  *)
(* an Err or a None).  The ledger behind the RPC client and the files and  *)
(* wallets behind the key-resolution service are the environment: what     *)
(* they answer is an input of the call.                                    *)
(***************************************************************************)
EXTENDS Integers, Sequences, FiniteSets, TLC

VARIABLES
    config,     \* the Config of this invocation
    pc,         \* "idle" | "returned" | "exited" | "panicked"
    call,       \* the method last called, with its arguments
    outcome,    \* how that call ended, its value and the external services it used
    stderr,     \* what the process printed with eprintln! / the panic message
    exit_code   \* the status passed to std::process::exit, if it was called

vars == <<config, pc, call, outcome, stderr, exit_code>>

----------------------------------------------------------------------------
(* Bounds *)

\* Pubkeys are 0..NumAddr; 0 is Pubkey::default(), the all-zero address.
NumAddr == 2

\* Mint decimals (a u8 in the source) range over 0..MaxDecimals.
MaxDecimals == 1


----------------------------------------------------------------------------
(* Values *)

\* The argument of std::process::exit in the three fatal paths.
ExitFailure == 1

Pubkeys == 0..NumAddr
PubkeyDefault == 0
Decimals == 0..MaxDecimals
DecimalsDefault == 0

\* Option<T>
None == [some |-> FALSE]
Some(x) == [some |-> TRUE, val |-> x]
Opt(S) == {None} \cup {Some(x) : x \in S}

\* Result<T, E>
Ok(v) == [ok |-> TRUE, val |-> v]
Err(e) == [ok |-> FALSE, err |-> e]

\* How a call ends: it returns v, or the process exits, or the thread panics.
\* io is the sequence of external services the call used, in order.
Return(v, io) == [out |-> "return", val |-> v, io |-> io]
Exit(e, io) == [out |-> "exit", msg |-> e, io |-> io]
Panic(e, io) == [out |-> "panic", msg |-> e, io |-> io]

\* A command-line value naming a key: a keypair file (or wallet) holding the
\* key of addr, a bare base58 pubkey, or something the key-resolution
\* service cannot resolve.
Paths ==
    {[kind |-> k, addr |-> a] : k \in {"keypair", "pubkey"}, a \in 1..NumAddr}
        \cup {[kind |-> "bad", addr |-> PubkeyDefault]}

\* The named arguments the resolvers are asked about.
ArgNames == {"owner", "address"}

\* clap's ArgMatches, restricted to those arguments.
ArgMatchesSet == [ArgNames -> Opt(Paths)]

\* KeypairOrPath
KeypairOrPathSet ==
    {[variant |-> "Keypair", pubkey |-> a, path |-> [kind |-> "keypair", addr |-> a]] :
        a \in 1..NumAddr}
        \cup {[variant |-> "Path", pubkey |-> p.addr, path |-> p] : p \in Paths}

\* The fields of Config the methods read.
ConfigSet ==
    [sign_only : BOOLEAN,
     program_id : 1..NumAddr,
     default_keypair : KeypairOrPathSet,
     multisigner_pubkeys : {{}, {1}}]

\* What rpc_client.get_account answers: an error (the account does not exist,
\* or the transport failed), or the account's owner and data.  The data
\* unpack as a Mint, as a token Account, or as neither.
RpcResponses ==
    {[found |-> FALSE, owner |-> PubkeyDefault, type |-> "none",
      decimals |-> DecimalsDefault, mint |-> PubkeyDefault]}
        \cup {[found |-> TRUE, owner |-> o, type |-> "garbage",
               decimals |-> DecimalsDefault, mint |-> PubkeyDefault] : o \in 1..NumAddr}
        \cup {[found |-> TRUE, owner |-> o, type |-> "mint",
               decimals |-> d, mint |-> PubkeyDefault] : o \in 1..NumAddr, d \in Decimals}
        \cup {[found |-> TRUE, owner |-> o, type |-> "account",
               decimals |-> DecimalsDefault, mint |-> m] : o \in 1..NumAddr, m \in Pubkeys}

----------------------------------------------------------------------------
(* The external collaborators, as the methods use them *)

\* rpc_client.get_account(address).await
RpcGetAccount(resp) ==
    IF resp.found THEN Ok(resp) ELSE Err([kind |-> "ClientError"])

\* StateWithExtensionsOwned::<Mint>::unpack(account.data)
UnpackMint(resp) ==
    IF resp.type = "mint" THEN Ok([decimals |-> resp.decimals])
    ELSE Err([kind |-> "InvalidAccountData"])

\* StateWithExtensionsOwned::<Account>::unpack(account.data)
UnpackAccount(resp) ==
    IF resp.type = "account" THEN Ok([mint |-> resp.mint])
    ELSE Err([kind |-> "InvalidAccountData"])

\* solana_clap_utils::keypair::pubkey_from_path
PubkeyFromPath(path) ==
    IF path.kind = "bad" THEN Err([kind |-> "KeyResolution"]) ELSE Ok(path.addr)

\* solana_clap_utils::keypair::signer_from_path_with_config: a bare pubkey
\* yields a NullSigner only when allow_null_signer is set.
SignerFromPathWithConfig(path, allow_null_signer) ==
    CASE path.kind = "keypair" -> Ok([kind |-> "keypair", pubkey |-> path.addr])
      [] path.kind = "pubkey" ->
            IF allow_null_signer THEN Ok([kind |-> "null", pubkey |-> path.addr])
            ELSE Err([kind |-> "MissingSignature"])
      [] OTHER -> Err([kind |-> "KeyResolution"])

\* Signer::pubkey
SignerPubkey(signer) == signer.pubkey

\* solana_clap_utils::input_parsers::pubkey_of_signer(matches, name, _):
\* Ok(None) when the argument is absent, else the address of its value.
PubkeyOfSigner(matches, name) ==
    IF ~matches[name].some THEN [res |-> Ok(None), io |-> <<>>]
    ELSE LET r == PubkeyFromPath(matches[name].val) IN
         [res |-> IF r.ok THEN Ok(Some(r.val)) ELSE r, io |-> <<"key:" \o name>>]

\* ArgMatches::value_of
ValueOf(matches, name) == matches[name]

\* spl_associated_token_account::get_associated_token_address_with_program_id:
\* a deterministic address, distinct for distinct (owner, token, program) and
\* distinct from every address of Pubkeys.
GetAssociatedTokenAddressWithProgramId(owner, token, program_id) ==
    (NumAddr + 1) + (owner * (NumAddr + 1) + token) * (NumAddr + 1) + program_id

----------------------------------------------------------------------------
(* The methods of Config *)

\* check_owner with its test the wrong way round.
CheckOwnerInverted(cfg, account, owner) ==
    IF cfg.program_id = owner
    THEN Err([kind |-> "OwnershipMismatch", account |-> account,
              owner |-> owner, program_id |-> cfg.program_id])
    ELSE Ok(TRUE)

\* Config::check_owner
CheckOwner(cfg, account, owner) ==
    IF cfg.program_id # owner
    THEN Err([kind |-> "OwnershipMismatch", account |-> account,
              owner |-> owner, program_id |-> cfg.program_id])
    ELSE Ok(TRUE)

\* The decimals test with > for !=.
DecimalsDifferAbove(mint_decimals, decoded) ==
    mint_decimals.some /\ mint_decimals.val > decoded

\* The test of Config::get_mint_info on the caller's decimals.
DecimalsDiffer(mint_decimals, decoded) ==
    mint_decimals.some /\ mint_decimals.val # decoded

\* Config::get_mint_info, the sign_only branch.
GetMintInfoSignOnly(cfg, mint, mint_decimals) ==
    Return(Ok([program_id |-> cfg.program_id, address |-> mint,
               decimals |-> IF mint_decimals.some THEN mint_decimals.val
                            ELSE DecimalsDefault]),
           <<>>)

\* The ledger branch of get_mint_info with the data unpacked before the owner
\* is checked.
GetMintInfoFetchDecodeFirst(cfg, mint, mint_decimals, resp) ==
    LET io == <<"rpc:get_account">>
        account == RpcGetAccount(resp)
    IN
    IF ~account.ok THEN Return(account, io)
    ELSE LET owned == CheckOwner(cfg, mint, account.val.owner)
             mint_account == UnpackMint(account.val)
         IN
         IF ~mint_account.ok
         THEN Return(Err([kind |-> "CouldNotFindMint", account |-> mint]), io)
         ELSE IF ~owned.ok THEN Return(owned, io)
         ELSE IF mint_decimals.some /\ mint_decimals.val # mint_account.val.decimals
         THEN Return(Err([kind |-> "DecimalsMismatch", account |-> mint,
                          actual |-> mint_account.val.decimals,
                          configured |-> mint_decimals.val]), io)
         ELSE Return(Ok([program_id |-> account.val.owner, address |-> mint,
                         decimals |-> mint_account.val.decimals]), io)

\* Config::get_mint_info, the branch that asks the ledger; resp is what the
\* ledger holds at mint.
GetMintInfoFetch(cfg, mint, mint_decimals, resp) ==
    LET io == <<"rpc:get_account">>
        account == RpcGetAccount(resp)
    IN
    IF ~account.ok THEN Return(account, io)
    ELSE LET owned == CheckOwner(cfg, mint, account.val.owner)
             mint_account == UnpackMint(account.val)
         IN
         IF ~owned.ok THEN Return(owned, io)
         ELSE IF ~mint_account.ok
         THEN Return(Err([kind |-> "CouldNotFindMint", account |-> mint]), io)
         ELSE IF DecimalsDiffer(mint_decimals, mint_account.val.decimals)
         THEN Return(Err([kind |-> "DecimalsMismatch", account |-> mint,
                          actual |-> mint_account.val.decimals,
                          configured |-> mint_decimals.val]), io)
         ELSE Return(Ok([program_id |-> account.val.owner, address |-> mint,
                         decimals |-> mint_account.val.decimals]), io)

\* get_mint_info without the sign_only branch.
GetMintInfoAlwaysFetch(cfg, mint, mint_decimals, resp) ==
    LET io == <<"rpc:get_account">>
        account == RpcGetAccount(resp)
    IN
    IF ~account.ok THEN Return(account, io)
    ELSE IF account.val.owner # cfg.program_id
    THEN Return(Err([kind |-> "OwnershipMismatch", account |-> mint,
                     owner |-> account.val.owner, program_id |-> cfg.program_id]), io)
    ELSE IF account.val.type # "mint"
    THEN Return(Err([kind |-> "CouldNotFindMint", account |-> mint]), io)
    ELSE IF mint_decimals.some /\ mint_decimals.val # account.val.decimals
    THEN Return(Err([kind |-> "DecimalsMismatch", account |-> mint,
                     actual |-> account.val.decimals,
                     configured |-> mint_decimals.val]), io)
    ELSE Return(Ok([program_id |-> account.val.owner, address |-> mint,
                    decimals |-> account.val.decimals]), io)

\* Config::get_mint_info
GetMintInfo(cfg, mint, mint_decimals, resp) ==
    IF cfg.sign_only THEN GetMintInfoSignOnly(cfg, mint, mint_decimals)
    ELSE GetMintInfoFetch(cfg, mint, mint_decimals, resp)

\* The ledger branch of check_account with the owner checked before the mint.
CheckAccountFetchOwnerFirst(cfg, token_account, mint_address, resp) ==
    LET io == <<"rpc:get_account">>
        account == RpcGetAccount(resp)
    IN
    IF ~account.ok THEN Return(account, io)
    ELSE LET source_account == UnpackAccount(account.val) IN
         IF ~source_account.ok
         THEN Return(Err([kind |-> "CouldNotFindTokenAccount",
                          account |-> token_account]), io)
         ELSE LET source_mint == source_account.val.mint
                  owned == CheckOwner(cfg, token_account, account.val.owner)
              IN
              IF ~owned.ok THEN Return(owned, io)
              ELSE IF mint_address.some /\ source_mint # mint_address.val
              THEN Return(Err([kind |-> "MintMismatch", account |-> token_account,
                               expected |-> mint_address.val]), io)
              ELSE Return(Ok(source_mint), io)

\* Config::check_account, the branch that asks the ledger; resp is what the
\* ledger holds at token_account.
CheckAccountFetch(cfg, token_account, mint_address, resp) ==
    LET io == <<"rpc:get_account">>
        account == RpcGetAccount(resp)
    IN
    IF ~account.ok THEN Return(account, io)
    ELSE LET source_account == UnpackAccount(account.val) IN
         IF ~source_account.ok
         THEN Return(Err([kind |-> "CouldNotFindTokenAccount",
                          account |-> token_account]), io)
         ELSE LET source_mint == source_account.val.mint
                  owned == CheckOwner(cfg, token_account, account.val.owner)
              IN
              IF mint_address.some /\ source_mint # mint_address.val
              THEN Return(Err([kind |-> "MintMismatch", account |-> token_account,
                               expected |-> mint_address.val]), io)
              ELSE IF ~owned.ok THEN Return(owned, io)
              ELSE Return(Ok(source_mint), io)

\* The sign_only branch of check_account answering with the default address
\* whatever mint the caller expects.
CheckAccountSignOnlyDefault(mint_address) ==
    Return(Ok(PubkeyDefault), <<>>)

\* Config::check_account, the sign_only branch.
CheckAccountSignOnly(mint_address) ==
    Return(Ok(IF mint_address.some THEN mint_address.val ELSE PubkeyDefault), <<>>)

\* Config::check_account
CheckAccount(cfg, token_account, mint_address, resp) ==
    IF ~cfg.sign_only THEN CheckAccountFetch(cfg, token_account, mint_address, resp)
    ELSE CheckAccountSignOnly(mint_address)

\* Config::default_address: Return carries the Result the method returns;
\* the unwrap() of pubkey_of_signer panics when the owner value does not resolve.
DefaultAddress(cfg, matches) ==
    LET owner == PubkeyOfSigner(matches, "owner") IN
    IF ~owner.res.ok THEN Panic(owner.res.err, owner.io)
    ELSE IF owner.res.val.some THEN Return(Ok(owner.res.val.val), owner.io)
    ELSE IF cfg.default_keypair.variant = "Keypair"
    THEN Return(Ok(cfg.default_keypair.pubkey), owner.io \o <<"identity">>)
    ELSE Return(PubkeyFromPath(cfg.default_keypair.path),
                owner.io \o <<"identity", "key:default">>)

\* pubkey_or_default with the owner override consulted before the named one.
PubkeyOrDefaultOwnerFirst(cfg, arg_matches, address_name) ==
    LET owner == PubkeyOfSigner(arg_matches, "owner")
        named == IF address_name # "owner"
                 THEN PubkeyOfSigner(arg_matches, address_name)
                 ELSE [res |-> Ok(None), io |-> <<>>]
    IN
    IF ~owner.res.ok THEN Panic(owner.res.err, owner.io)
    ELSE IF owner.res.val.some THEN Return(owner.res.val.val, owner.io)
    ELSE IF ~named.res.ok THEN Panic(named.res.err, named.io)
    ELSE IF named.res.val.some THEN Return(named.res.val.val, named.io)
    ELSE LET d == DefaultAddress(cfg, arg_matches) IN
         IF d.out = "panic" THEN Panic(d.msg, named.io \o d.io)
         ELSE IF d.val.ok THEN Return(d.val.val, named.io \o d.io)
         ELSE Exit(d.val.err, named.io \o d.io)

\* pubkey_or_default with the default address resolved before the named
\* override is looked at.
PubkeyOrDefaultEager(cfg, arg_matches, address_name) ==
    LET d == DefaultAddress(cfg, arg_matches)
        named == IF address_name # "owner"
                 THEN PubkeyOfSigner(arg_matches, address_name)
                 ELSE [res |-> Ok(None), io |-> <<>>]
    IN
    IF d.out = "panic" THEN Panic(d.msg, d.io)
    ELSE IF ~d.val.ok THEN Exit(d.val.err, d.io)
    ELSE IF ~named.res.ok THEN Panic(named.res.err, d.io \o named.io)
    ELSE IF named.res.val.some THEN Return(named.res.val.val, d.io \o named.io)
    ELSE Return(d.val.val, d.io \o named.io)

\* pubkey_or_default with unwrap_or_default() for the fallback.
PubkeyOrDefaultSilent(cfg, arg_matches, address_name) ==
    LET named == IF address_name # "owner"
                 THEN PubkeyOfSigner(arg_matches, address_name)
                 ELSE [res |-> Ok(None), io |-> <<>>]
    IN
    IF ~named.res.ok THEN Panic(named.res.err, named.io)
    ELSE IF named.res.val.some THEN Return(named.res.val.val, named.io)
    ELSE LET d == DefaultAddress(cfg, arg_matches) IN
         IF d.out = "panic" THEN Panic(d.msg, named.io \o d.io)
         ELSE IF d.val.ok THEN Return(d.val.val, named.io \o d.io)
         ELSE Return(PubkeyDefault, named.io \o d.io)

\* Config::pubkey_or_default
PubkeyOrDefault(cfg, arg_matches, address_name) ==
    LET named == IF address_name # "owner"
                 THEN PubkeyOfSigner(arg_matches, address_name)
                 ELSE [res |-> Ok(None), io |-> <<>>]
    IN
    IF ~named.res.ok THEN Panic(named.res.err, named.io)
    ELSE IF named.res.val.some THEN Return(named.res.val.val, named.io)
    ELSE LET d == DefaultAddress(cfg, arg_matches) IN
         IF d.out = "panic" THEN Panic(d.msg, named.io \o d.io)
         ELSE IF d.val.ok THEN Return(d.val.val, named.io \o d.io)
         ELSE Exit(d.val.err, named.io \o d.io)

\* default_signer without the owner override.
DefaultSignerNoOwner(cfg, matches, allow_null_signer) ==
    IF cfg.default_keypair.variant = "Keypair"
    THEN [res |-> Ok([kind |-> "keypair", pubkey |-> cfg.default_keypair.pubkey]),
          io |-> <<"identity">>]
    ELSE [res |-> SignerFromPathWithConfig(cfg.default_keypair.path, allow_null_signer),
          io |-> <<"identity", "key:default">>]

\* Config::default_signer: the Result the method returns, and the services used.
DefaultSigner(cfg, matches, allow_null_signer) ==
    LET owner_path == ValueOf(matches, "owner") IN
    IF owner_path.some
    THEN [res |-> SignerFromPathWithConfig(owner_path.val, allow_null_signer),
          io |-> <<"key:owner">>]
    ELSE IF cfg.default_keypair.variant = "Keypair"
    THEN [res |-> Ok([kind |-> "keypair", pubkey |-> cfg.default_keypair.pubkey]),
          io |-> <<"identity">>]
    ELSE [res |-> SignerFromPathWithConfig(cfg.default_keypair.path, allow_null_signer),
          io |-> <<"identity", "key:default">>]

\* The closure load_authority of Config::signer_or_default.
LoadAuthority(cfg, arg_matches, authority_name, allow_null_signer) ==
    LET keypair_path == ValueOf(arg_matches, authority_name) IN
    IF authority_name # "owner" /\ keypair_path.some
    THEN [res |-> SignerFromPathWithConfig(keypair_path.val, allow_null_signer),
          io |-> <<"key:" \o authority_name>>]
    ELSE DefaultSigner(cfg, arg_matches, allow_null_signer)

\* Config::signer_or_default
SignerOrDefault(cfg, arg_matches, authority_name) ==
    LET allow_null_signer == cfg.multisigner_pubkeys # {}
        authority == LoadAuthority(cfg, arg_matches, authority_name, allow_null_signer)
    IN
    IF ~authority.res.ok THEN Exit(authority.res.err, authority.io)
    ELSE Return([signer |-> authority.res.val,
                 address |-> SignerPubkey(authority.res.val)], authority.io)

\* Config::associated_token_address_for_token_and_program
AssociatedTokenAddressForTokenAndProgram(cfg, arg_matches, token, program_id) ==
    LET d == DefaultAddress(cfg, arg_matches) IN
    IF d.out = "panic" THEN d
    ELSE IF ~d.val.ok THEN Exit(d.val.err, d.io)
    ELSE Return(GetAssociatedTokenAddressWithProgramId(d.val.val, token, program_id), d.io)

\* Config::associated_token_address_for_token_or_override; resp is what the
\* ledger holds at token.
AssociatedTokenAddressForTokenOrOverride(cfg, arg_matches, override_name, token, resp) ==
    LET named == PubkeyOfSigner(arg_matches, override_name) IN
    IF ~named.res.ok THEN Panic(named.res.err, named.io)
    ELSE IF named.res.val.some THEN Return(named.res.val.val, named.io)
    ELSE IF ~token.some THEN Panic([kind |-> "UnwrapNone"], named.io)
    ELSE LET info == GetMintInfo(cfg, token.val, None, resp)
             io == named.io \o info.io
         IN
         IF ~info.val.ok THEN Panic(info.val.err, io)
         ELSE LET a == AssociatedTokenAddressForTokenAndProgram(
                           cfg, arg_matches, token.val, info.val.val.program_id)
              IN [a EXCEPT !.io = io \o a.io]

----------------------------------------------------------------------------
(* The invocation *)

NoCall == [op |-> "none"]
NoOutcome == [out |-> "none", io |-> <<>>]

Init ==
    /\ config \in ConfigSet
    /\ pc = "idle"
    /\ call = NoCall
    /\ outcome = NoOutcome
    /\ stderr = <<>>
    /\ exit_code = None

\* The call c ends as o: the value goes back to the caller, or the error is
\* printed and the process ends.  No method writes to Config.
Finish(c, o) ==
    /\ call' = c
    /\ outcome' = o
    /\ pc' = CASE o.out = "return" -> "returned"
               [] o.out = "exit" -> "exited"
               [] OTHER -> "panicked"
    /\ stderr' = IF o.out = "return" THEN stderr ELSE Append(stderr, o.msg)
    /\ exit_code' = IF o.out = "exit" THEN Some(ExitFailure) ELSE exit_code
    /\ UNCHANGED config

CallPubkeyOrDefault ==
    /\ pc = "idle"
    /\ \E m \in ArgMatchesSet, n \in ArgNames :
          Finish([op |-> "pubkey_or_default", matches |-> m, name |-> n],
                 PubkeyOrDefault(config, m, n))

CallSignerOrDefault ==
    /\ pc = "idle"
    /\ \E m \in ArgMatchesSet, n \in ArgNames :
          Finish([op |-> "signer_or_default", matches |-> m, name |-> n],
                 SignerOrDefault(config, m, n))

CallGetMintInfo ==
    /\ pc = "idle"
    /\ \E mint \in Pubkeys, d \in Opt(Decimals), resp \in RpcResponses :
          Finish([op |-> "get_mint_info", address |-> mint, decimals |-> d,
                  ledger |-> resp],
                 GetMintInfo(config, mint, d, resp))

CallCheckAccount ==
    /\ pc = "idle"
    /\ \E a \in Pubkeys, m \in Opt(Pubkeys), resp \in RpcResponses :
          Finish([op |-> "check_account", address |-> a, mint |-> m, ledger |-> resp],
                 CheckAccount(config, a, m, resp))

CallAssociatedTokenAddressForTokenAndProgram ==
    /\ pc = "idle"
    /\ \E m \in ArgMatchesSet, token \in Pubkeys, p \in 1..NumAddr :
          Finish([op |-> "associated_token_address_for_token_and_program",
                  matches |-> m, token |-> token, program_id |-> p],
                 AssociatedTokenAddressForTokenAndProgram(config, m, token, p))

CallAssociatedTokenAddressForTokenOrOverride ==
    /\ pc = "idle"
    /\ \E m \in ArgMatchesSet, n \in ArgNames \ {"owner"}, token \in Opt(Pubkeys),
          resp \in RpcResponses :
          Finish([op |-> "associated_token_address_for_token_or_override",
                  matches |-> m, name |-> n, token |-> token, ledger |-> resp],
                 AssociatedTokenAddressForTokenOrOverride(config, m, n, token, resp))

\* The command handler takes the value returned and goes on to its next call.
Continue ==
    /\ pc = "returned"
    /\ pc' = "idle"
    /\ call' = NoCall
    /\ outcome' = NoOutcome
    /\ UNCHANGED <<config, stderr, exit_code>>

Next ==
    \/ CallPubkeyOrDefault
    \/ CallSignerOrDefault
    \/ CallGetMintInfo
    \/ CallCheckAccount
    \/ CallAssociatedTokenAddressForTokenAndProgram
    \/ CallAssociatedTokenAddressForTokenOrOverride
    \/ Continue

Spec == Init /\ [][Next]_vars

----------------------------------------------------------------------------
(* Vocabulary of the properties *)

\* The services a call used.
Used(svc) == \E i \in 1..Len(outcome.io) : outcome.io[i] = svc

\* The argument name of the call has a value that names a key of some address.
Supplied(m, n) == m[n].some /\ m[n].val.kind # "bad"
Absent(m, n) == ~m[n].some

\* The named override of a resolver call: the argument it was asked about,
\* unless that is "owner" itself, which both resolvers leave to the fallback.
NamedSupplied(m, n) == n # "owner" /\ Supplied(m, n)
NamedAbsent(m, n) == n = "owner" \/ Absent(m, n)

\* The Identity Source names an address without help, or through a path the
\* key-resolution service resolves to an address.
IdentityHasAddress ==
    \/ config.default_keypair.variant = "Keypair"
    \/ config.default_keypair.path.kind # "bad"

\* The Identity Source yields a signing capability under allow_null_signer.
IdentityHasSigner ==
    \/ config.default_keypair.variant = "Keypair"
    \/ config.default_keypair.path.kind = "keypair"
    \/ config.default_keypair.path.kind = "pubkey" /\ config.multisigner_pubkeys # {}

IsResolverCall == call.op \in {"pubkey_or_default", "signer_or_default"}
ReturnedOk == pc = "returned" /\ outcome.val.ok
ReturnedErr == pc = "returned" /\ ~outcome.val.ok
Online(op) == call.op = op /\ ~config.sign_only
Offline(op) == call.op = op /\ config.sign_only

----------------------------------------------------------------------------
(* C1 *)

\* C1 as stated: in pubkey_or_default, for a named parameter other than
\* "owner", when an owner override o and the named override n are both
\* supplied, the address returned is o.
C1_OwnerBeatsNamed ==
    (/\ call.op = "pubkey_or_default"
     /\ NamedSupplied(call.matches, call.name)
     /\ Supplied(call.matches, "owner"))
        => /\ pc = "returned"
           /\ outcome.val = call.matches["owner"].val.addr

\* C1, amended: pubkey_or_default resolves named override > owner override >
\* Identity Source default.  With the named override supplied it returns that
\* address, whether or not an owner override is supplied; with the named
\* override absent and the owner override supplied it returns the owner
\* override; with both absent it returns the address of the Identity Source.
C1_NamedBeatsOwner ==
    call.op = "pubkey_or_default" =>
        LET m == call.matches
            n == call.name
        IN
        /\ NamedSupplied(m, n) =>
              pc = "returned" /\ outcome.val = m[n].val.addr
        /\ (NamedAbsent(m, n) /\ Supplied(m, "owner")) =>
              pc = "returned" /\ outcome.val = m["owner"].val.addr
        /\ (NamedAbsent(m, n) /\ Absent(m, "owner") /\ IdentityHasAddress) =>
              pc = "returned" /\ outcome.val = config.default_keypair.pubkey

\* Both overrides supplied with different addresses: the named one is returned.
C1_Witness ==
    /\ call.op = "pubkey_or_default"
    /\ pc = "returned"
    /\ NamedSupplied(call.matches, call.name)
    /\ Supplied(call.matches, "owner")
    /\ call.matches["owner"].val.addr # call.matches[call.name].val.addr
    /\ outcome.val = call.matches[call.name].val.addr

----------------------------------------------------------------------------
(* C2 *)

\* C2: in sign_only mode get_mint_info asks the ledger nothing and succeeds:
\* the address is the one given, the decimals are the caller's or 0 when none
\* are supplied, and the program is Config.program_id.
C2_SignOnlyMintInfo ==
    Offline("get_mint_info") =>
        /\ ReturnedOk
        /\ ~Used("rpc:get_account")
        /\ outcome.val.val.address = call.address
        /\ outcome.val.val.program_id = config.program_id
        /\ outcome.val.val.decimals =
              (IF call.decimals.some THEN call.decimals.val ELSE 0)

\* No decimals supplied, and a ledger that holds a mint of another owner with
\* other decimals at that address.
C2_Witness ==
    /\ Offline("get_mint_info")
    /\ pc = "returned"
    /\ ~call.decimals.some
    /\ call.ledger.type = "mint"
    /\ call.ledger.owner # config.program_id
    /\ call.ledger.decimals # 0
    /\ outcome.val.val.decimals = 0

----------------------------------------------------------------------------
(* C3 *)

OwnershipMismatch(account, owner) ==
    [kind |-> "OwnershipMismatch", account |-> account, owner |-> owner,
     program_id |-> config.program_id]

C3_Owned ==
    \* every MintInfo returned names Config.program_id, in either mode
    /\ (call.op = "get_mint_info" /\ ReturnedOk) =>
          outcome.val.val.program_id = config.program_id
    \* a check_account that succeeded on the ledger saw an account of the program
    /\ (Online("check_account") /\ ReturnedOk) =>
          call.ledger.found /\ call.ledger.owner = config.program_id
    \* a mint of another owner is refused, naming account, owner and program
    /\ (/\ Online("get_mint_info")
        /\ call.ledger.type = "mint"
        /\ call.ledger.owner # config.program_id) =>
          /\ pc = "returned"
          /\ outcome.val = Err(OwnershipMismatch(call.address, call.ledger.owner))
    \* a token account of another owner is refused; the refusal is the
    \* ownership mismatch unless the mint test refused it before
    /\ (/\ Online("check_account")
        /\ call.ledger.type = "account"
        /\ call.ledger.owner # config.program_id) =>
          /\ ReturnedErr
          /\ (~call.mint.some \/ call.mint.val = call.ledger.mint) =>
                outcome.val = Err(OwnershipMismatch(call.address, call.ledger.owner))

----------------------------------------------------------------------------
(* C4 *)

\* C4: when the argument pubkey_or_default is asked about is supplied with
\* address a, the call returns a, whatever the Identity Source is, and neither
\* the Identity Source nor the key resolution of the default identity is used.
C4_ExplicitOverride ==
    (call.op = "pubkey_or_default" /\ Supplied(call.matches, call.name)) =>
        /\ pc = "returned"
        /\ outcome.val = call.matches[call.name].val.addr
        /\ ~Used("identity")
        /\ ~Used("key:default")

\* The override is returned under an Identity Source that cannot be resolved.
C4_Witness ==
    /\ call.op = "pubkey_or_default"
    /\ Supplied(call.matches, call.name)
    /\ config.default_keypair.variant = "Path"
    /\ config.default_keypair.path.kind = "bad"
    /\ pc = "returned"
    /\ outcome.val = call.matches[call.name].val.addr

----------------------------------------------------------------------------
(* C5 *)

\* C5: in sign_only mode check_account asks the ledger nothing and succeeds
\* with the caller's mint, or with the default address when none is supplied.
C5_SignOnlyCheckAccount ==
    Offline("check_account") =>
        /\ ReturnedOk
        /\ ~Used("rpc:get_account")
        /\ outcome.val.val = (IF call.mint.some THEN call.mint.val ELSE 0)

\* The ledger holds a token account of another mint; the caller's is returned.
C5_Witness ==
    /\ Offline("check_account")
    /\ pc = "returned"
    /\ call.ledger.type = "account"
    /\ call.mint.some
    /\ call.ledger.mint # call.mint.val
    /\ outcome.val.val = call.mint.val

----------------------------------------------------------------------------
(* C6 *)

\* C6: outside sign_only mode, for a token account that decodes with mint M:
\* when it is owned by Config.program_id, check_account returns M for the
\* expected mint M and for no expected mint, and fails with the mint mismatch
\* for another expected mint; the mint test precedes the ownership test, so an
\* account of another mint and another owner reports the mint mismatch.
C6_CheckAccount ==
    (Online("check_account") /\ call.ledger.type = "account") =>
        LET M == call.ledger.mint
            owned == call.ledger.owner = config.program_id
            differs == call.mint.some /\ call.mint.val # M
        IN
        /\ pc = "returned"
        /\ (owned /\ ~differs) => outcome.val = Ok(M)
        /\ differs =>
              outcome.val = Err([kind |-> "MintMismatch", account |-> call.address,
                                 expected |-> call.mint.val])

\* Another mint and another owner: the mint mismatch is what is reported.
C6_Witness ==
    /\ Online("check_account")
    /\ call.ledger.type = "account"
    /\ call.ledger.owner # config.program_id
    /\ call.mint.some
    /\ call.mint.val # call.ledger.mint
    /\ ReturnedErr
    /\ outcome.val.err.kind = "MintMismatch"

----------------------------------------------------------------------------
(* C7 *)

\* C7: outside sign_only mode, for a mint of Config.program_id that decodes
\* with decimals d: get_mint_info with expected decimals e # d fails with the
\* decimals mismatch naming d and e; with e = d or none expected it succeeds,
\* and the decimals returned are d.
C7_Decimals ==
    (/\ Online("get_mint_info")
     /\ call.ledger.type = "mint"
     /\ call.ledger.owner = config.program_id) =>
        LET d == call.ledger.decimals IN
        /\ pc = "returned"
        /\ IF call.decimals.some /\ call.decimals.val # d
           THEN outcome.val = Err([kind |-> "DecimalsMismatch", account |-> call.address,
                                   actual |-> d, configured |-> call.decimals.val])
           ELSE outcome.val = Ok([program_id |-> config.program_id,
                                  address |-> call.address, decimals |-> d])

\* Expected decimals that differ from the decoded ones, refused.
C7_Witness ==
    /\ Online("get_mint_info")
    /\ call.ledger.type = "mint"
    /\ call.ledger.owner = config.program_id
    /\ call.decimals.some
    /\ call.decimals.val # call.ledger.decimals
    /\ ReturnedErr
    /\ outcome.val.err.kind = "DecimalsMismatch"

----------------------------------------------------------------------------
(* C8 *)

\* The errors that say the mint account was not found: the RPC client's, for
\* an account that does not exist, and "Could not find mint account".
IsNotFound(res) == ~res.ok /\ res.err.kind \in {"ClientError", "CouldNotFindMint"}

\* C8 as stated: outside sign_only mode get_mint_info fails with the not-found
\* error for every account that is absent or does not decode as a mint,
\* whatever its owner.
C8_NotFoundFirst ==
    (Online("get_mint_info") /\ call.ledger.type # "mint") =>
        pc = "returned" /\ IsNotFound(outcome.val)

\* C8, amended: outside sign_only mode get_mint_info tests in this order: the
\* account exists, its owner is Config.program_id, its data decode as a mint,
\* its decimals are the expected ones; the error reported is that of the first
\* test that fails.  An absent account is not found; an account that does not
\* decode is not found only when Config.program_id owns it, and is an
\* ownership mismatch otherwise.
C8_CheckOrder ==
    Online("get_mint_info") =>
        LET l == call.ledger
            exists == l.found
            owned == l.owner = config.program_id
            decodes == l.type = "mint"
        IN
        /\ pc = "returned"
        /\ ~exists => outcome.val = Err([kind |-> "ClientError"])
        /\ (exists /\ ~owned) =>
              outcome.val = Err(OwnershipMismatch(call.address, l.owner))
        /\ (exists /\ owned /\ ~decodes) =>
              outcome.val = Err([kind |-> "CouldNotFindMint", account |-> call.address])
        /\ (exists /\ owned /\ decodes /\ call.decimals.some
                /\ call.decimals.val # l.decimals) =>
              outcome.val.err.kind = "DecimalsMismatch"

\* Data that do not decode, in an account of another owner: the ownership
\* mismatch is what is reported.
C8_Witness ==
    /\ Online("get_mint_info")
    /\ call.ledger.type = "garbage"
    /\ call.ledger.owner # config.program_id
    /\ ReturnedErr
    /\ outcome.val.err.kind = "OwnershipMismatch"

----------------------------------------------------------------------------
(* C9 *)

\* The call falls back to the Identity Source, and resolving it fails.
FallbackFails ==
    /\ config.default_keypair.variant = "Path"
    /\ \/ /\ call.op = "pubkey_or_default"
          /\ NamedAbsent(call.matches, call.name)
          /\ Absent(call.matches, "owner")
          /\ ~IdentityHasAddress
       \/ /\ call.op = "signer_or_default"
          /\ NamedAbsent(call.matches, call.name)
          /\ Absent(call.matches, "owner")
          /\ ~IdentityHasSigner
       \/ /\ call.op = "associated_token_address_for_token_and_program"
          /\ Absent(call.matches, "owner")
          /\ ~IdentityHasAddress
       \/ /\ call.op = "associated_token_address_for_token_or_override"
          /\ Absent(call.matches, call.name)
          /\ call.token.some
          /\ config.sign_only
                \/ (call.ledger.type = "mint" /\ call.ledger.owner = config.program_id)
          /\ Absent(call.matches, "owner")
          /\ ~IdentityHasAddress

C9_Fatal ==
    /\ FallbackFails =>
          /\ pc = "exited"
          /\ outcome.out = "exit"
          /\ exit_code = Some(1)
          /\ stderr = <<outcome.msg>>
    \* nothing is returned by a call that asked for the default key in vain
    /\ (pc = "returned" /\ Used("key:default")) =>
          IF call.op = "signer_or_default" THEN IdentityHasSigner ELSE IdentityHasAddress

\* C9: in pubkey_or_default, signer_or_default and the associated-token-address
\* entry points, when no override applies and resolving the Identity Source
\* fails, the error is printed and the process exits with a non-zero status;
\* the call returns nothing, and no step follows the exit.
C9_FallbackFailureIsFatal == [](C9_Fatal) /\ [][pc # "exited"]_vars

\* The address resolver, with no override and an unresolvable default path.
C9_Witness ==
    /\ FallbackFails
    /\ call.op = "pubkey_or_default"
    /\ pc = "exited"
    /\ exit_code = Some(1)

----------------------------------------------------------------------------
(* C10 *)

\* C10: signer_or_default follows the precedence of pubkey_or_default: the
\* address it returns is the one pubkey_or_default returns for the same
\* Config, arguments and name, and it is the pubkey of the signer returned.
C10_SignerFollowsAddress ==
    (call.op = "signer_or_default" /\ pc = "returned") =>
        LET a == PubkeyOrDefault(config, call.matches, call.name) IN
        /\ a.out = "return"
        /\ a.val = outcome.val.address
        /\ outcome.val.signer.pubkey = outcome.val.address

\* The named override is absent and the owner override names another address
\* than the Identity Source: the signer is the owner's.
C10_Witness ==
    /\ call.op = "signer_or_default"
    /\ pc = "returned"
    /\ call.name # "owner"
    /\ Absent(call.matches, call.name)
    /\ Supplied(call.matches, "owner")
    /\ call.matches["owner"].val.addr # config.default_keypair.pubkey
    /\ outcome.val.address = call.matches["owner"].val.addr

====
